---- MODULE Spec2Model ----
(***************************************************************************)
(* Model of busd's per-connection core, src/src/peer.rs: the Peer          *)
(* connection, its org.freedesktop.DBus interface object (struct DBus:     *)
(* greeted, unique_name, name_registry, match_rules) and the interest      *)
(* evaluator Peer::interested.                                             *)
(*                                                                         *)
(* The name registry (crate::name_registry) is a collaborator whose code   *)
(* is not part of peer.rs; it is modelled from its documented interface    *)
(* (lookup / request_name / release_name).  MatchRule::matches is zbus'    *)
(* structural matcher; it is modelled by what it does on the header         *)
(* fields this model carries (sender and destination).                     *)
(*                                                                         *)
(* Spec takes every call, Peer::interested included, as one step.          *)
(* RaceSpec takes Peer::interested rule by rule and lookup by lookup,      *)
(* interleaved with the calls of the connections.                          *)
(***************************************************************************)
EXTENDS Bags, FiniteSets, Integers, Sequences, TLC

VARIABLES
    next_id,   \* the daemon's connection counter handed to Peer::new as `id`
    peers,     \* id -> the Peer built for it (its unique_name and its DBus object)
    names,     \* the shared NameRegistry: well-known name -> <<owner, waiting...>>
    last,      \* the last call made and what it returned
    eval       \* the interested() evaluation in progress, rule by rule

vars == <<next_id, peers, names, last, eval>>

----------------------------------------------------------------------------
(* Bounds of the model *)

\* connection ids run over 1..MaxId
MaxId == 2
\* at most MaxRules match rules are registered on the bus at any time
MaxRules == 2

----------------------------------------------------------------------------
(* Values *)

None == <<>>
Some(v) == <<v>>
Unwrap(o) == o[1]

Ids == 1 .. MaxId

\* a unique name that leaves the id out
UniqueNameOf_without_id(id) == ":busd."

\* format!(":busd.{id}")
UniqueNameOf(id) == ":busd." \o ToString(id)

UniqueNames == {UniqueNameOf(i) : i \in Ids}
WellKnownNames == {"org.example.Foo"}

\* zbus::names::BusName: Unique(name) | WellKnown(name)
Unique(n) == [kind |-> "Unique", name |-> n]
WellKnown(n) == [kind |-> "WellKnown", name |-> n]
BusNames == {Unique(n) : n \in UniqueNames} \cup {WellKnown(n) : n \in WellKnownNames}

\* zbus::MatchRule, reduced to the two criteria the evaluator reads:
\* sender (a bus name) and destination (a unique name).
MatchRules ==
    [sender : {None} \cup {Some(b) : b \in BusNames},
     destination : {None} \cup {Some(u) : u \in UniqueNames}]

\* A header field read through zbus' accessor: Result<Option<T>>.
Unset == [st |-> "Ok", val |-> None]
Field(v) == [st |-> "Ok", val |-> Some(v)]
Invalid == [st |-> "Err", val |-> None]

\* zbus::Message: header is FALSE when msg.header() is Err.
NoHeaderMsg == [header |-> FALSE, sender |-> Unset, destination |-> Unset]
Messages ==
    {NoHeaderMsg} \cup
    [header : {TRUE},
     sender : {Unset, Invalid} \cup {Field(u) : u \in UniqueNames},
     destination : {Unset, Invalid} \cup {Field(b) : b \in BusNames}]

\* a message with readable sender and destination fields
Msg(sender, destination) ==
    [header |-> TRUE, sender |-> Field(sender), destination |-> Field(destination)]

RequestNameFlags == {"AllowReplacement", "ReplaceExisting", "DoNotQueue"}
\* the BitFlags<RequestNameFlags> values the callers of this model pass
FlagSets == {{}, {"DoNotQueue"}, {"AllowReplacement", "ReplaceExisting"}}

----------------------------------------------------------------------------
(* std::collections::HashSet<OwnedMatchRule>, as a bag of rule values *)

HashSetNew == EmptyBag

\* insert that adds the value even when an equal one is present (a list push)
HashSetInsert_push(s, r) == s (+) SetToBag({r})

\* HashSet::insert: adds the value unless an equal one is present
HashSetInsert(s, r) == IF BagIn(r, s) THEN s ELSE s (+) SetToBag({r})

\* remove that only reports whether the value is present (contains)
HashSetRemove_contains(s, r) == [removed |-> BagIn(r, s), set |-> s]

\* HashSet::remove: takes the entry equal to r out; TRUE iff there was one
HashSetRemove(s, r) ==
    [removed |-> BagIn(r, s),
     set |-> IF BagIn(r, s) THEN s (-) SetToBag({r}) ELSE s]

\* HashSet::iter: the entries, in an order the hasher decides
HashSetIter(s) ==
    LET S == BagToSet(s)
        n == Cardinality(S)
    IN {o \in [1 .. n -> S] : \A i, j \in 1 .. n : i # j => o[i] # o[j]}

----------------------------------------------------------------------------
(* NameRegistry *)

\* NameRegistry::lookup: the current owner of a well-known name
lookup(reg, name) == IF reg[name] = <<>> THEN None ELSE Some(Head(reg[name]))

SeqWithout(s, v) == SelectSeq(s, LAMBDA e : e # v)
InSeq(s, v) == \E i \in 1 .. Len(s) : s[i] = v

\* NameRegistry::request_name: [reply, names]
registry_request_name(reg, name, unique_name, flags) ==
    IF reg[name] = <<>>
    THEN [reply |-> "PrimaryOwner", names |-> [reg EXCEPT ![name] = <<unique_name>>]]
    ELSE IF Head(reg[name]) = unique_name
    THEN [reply |-> "AlreadyOwner", names |-> reg]
    ELSE IF "DoNotQueue" \in flags
    THEN [reply |-> "Exists", names |-> [reg EXCEPT ![name] = SeqWithout(@, unique_name)]]
    ELSE [reply |-> "InQueue",
          names |-> IF InSeq(reg[name], unique_name) THEN reg
                    ELSE [reg EXCEPT ![name] = Append(@, unique_name)]]

\* NameRegistry::release_name: [reply, names]
registry_release_name(reg, name, unique_name) ==
    IF reg[name] = <<>>
    THEN [reply |-> "NonExistent", names |-> reg]
    ELSE IF InSeq(reg[name], unique_name)
    THEN [reply |-> "Released", names |-> [reg EXCEPT ![name] = SeqWithout(@, unique_name)]]
    ELSE [reply |-> "NotOwner", names |-> reg]

----------------------------------------------------------------------------
(* Peer::interested *)

\* a panic of the call, with the message of the expect() that raised it
Panic(what) == "panic: " \o what
NoHeader == Panic("received message without header")
NoSender == Panic("SENDER field unset")
NoDestination == Panic("DESTINATION field unset")
Panics == {NoHeader, NoSender, NoDestination}

\* MatchRule::matches(msg): "true", "false" or "err"
matches(rule, msg) ==
    IF ~msg.header THEN "err"
    ELSE IF rule.sender # None /\ Unwrap(rule.sender).kind = "Unique"
            /\ msg.sender.st = "Err" THEN "err"
    ELSE IF rule.sender # None /\ Unwrap(rule.sender).kind = "Unique"
            /\ Some(Unwrap(rule.sender).name) # msg.sender.val THEN "false"
    ELSE IF rule.destination # None /\ msg.destination.st = "Err" THEN "err"
    ELSE IF rule.destination # None /\ msg.destination.val # None
            /\ Unwrap(msg.destination.val).kind = "Unique"
            /\ Unwrap(msg.destination.val).name # Unwrap(rule.destination) THEN "false"
    ELSE "true"

\* the sender a rule's well-known sender criterion resolves to (lines 87-91)
resolved_sender(rule, reg) ==
    IF rule.sender = None THEN None
    ELSE IF Unwrap(rule.sender).kind = "WellKnown"
    THEN lookup(reg, Unwrap(rule.sender).name)
    ELSE None

\* a destination check that does not ask who owns a well-known destination
destination_check_any_owner(rule, msg, reg) ==
    IF rule.destination = None THEN "pass"
    ELSE IF msg.destination.st = "Err" \/ msg.destination.val = None THEN NoDestination
    ELSE "pass"

\* destination check in which an unowned destination name passes
destination_check_unowned_passes(rule, msg, reg) ==
    IF rule.destination = None THEN "pass"
    ELSE IF msg.destination.st = "Err" \/ msg.destination.val = None THEN NoDestination
    ELSE IF Unwrap(msg.destination.val).kind = "WellKnown"
    THEN IF lookup(reg, Unwrap(msg.destination.val).name) \in {None, rule.destination}
         THEN "pass" ELSE "fail"
    ELSE "pass"

\* the destination check of the closure (lines 104-119): "pass", "fail" or a panic
destination_check(rule, msg, reg) ==
    IF rule.destination = None THEN "pass"
    ELSE IF msg.destination.st = "Err" \/ msg.destination.val = None THEN NoDestination
    ELSE IF Unwrap(msg.destination.val).kind = "WellKnown"
    THEN IF lookup(reg, Unwrap(msg.destination.val).name) = rule.destination
         THEN "pass" ELSE "fail"
    ELSE "pass"

\* the closure with the header fields read by unwrap-or-fail instead of expect
rule_interested_fail_closed(rule, msg, reg) ==
    IF matches(rule, msg) # "true" THEN "false"
    ELSE IF resolved_sender(rule, reg) # None
            /\ resolved_sender(rule, reg) # msg.sender.val THEN "false"
    ELSE IF destination_check(rule, msg, reg) # "pass" THEN "false"
    ELSE "true"

\* the closure given to any(): "true", "false" or a panic
rule_interested(rule, msg, reg) ==
    IF matches(rule, msg) # "true" THEN "false"
    ELSE IF resolved_sender(rule, reg) # None
            /\ (msg.sender.st = "Err" \/ msg.sender.val = None) THEN NoSender
    ELSE IF resolved_sender(rule, reg) # None
            /\ resolved_sender(rule, reg) # msg.sender.val THEN "false"
    ELSE IF destination_check(rule, msg, reg) = "fail" THEN "false"
    ELSE IF destination_check(rule, msg, reg) = "pass" THEN "true"
    ELSE destination_check(rule, msg, reg)

\* Iterator::all in the place of Iterator::any
RECURSIVE all_rules(_, _, _)
all_rules(order, msg, reg) ==
    IF order = <<>> THEN "true"
    ELSE IF rule_interested(Head(order), msg, reg) = "true"
    THEN all_rules(Tail(order), msg, reg)
    ELSE rule_interested(Head(order), msg, reg)

\* an iteration that gives up after the first rule
any_first_only(order, msg, reg) ==
    IF order = <<>> THEN "false" ELSE rule_interested(Head(order), msg, reg)

\* Iterator::any over the rules in the order given: stops at the first rule
\* whose closure returns true (or panics)
RECURSIVE any(_, _, _)
any(order, msg, reg) ==
    IF order = <<>> THEN "false"
    ELSE IF rule_interested(Head(order), msg, reg) = "false"
    THEN any(Tail(order), msg, reg)
    ELSE rule_interested(Head(order), msg, reg)

\* Peer::interested: the results the call can have
interested(dbus, msg, reg) ==
    IF ~msg.header THEN {NoHeader}
    ELSE {any(o, msg, reg) : o \in HashSetIter(dbus.match_rules)}

----------------------------------------------------------------------------
(* The org.freedesktop.DBus interface of a connection *)

\* DBus::new
DBusNew(unique_name) ==
    [greeted |-> FALSE, unique_name |-> unique_name, match_rules |-> HashSetNew]

\* hello whose failure clears greeted
hello_failure_resets(dbus) ==
    IF dbus.greeted
    THEN [reply |-> "Failed", name |-> None, dbus |-> [dbus EXCEPT !.greeted = FALSE]]
    ELSE [reply |-> "Ok", name |-> Some(dbus.unique_name),
          dbus |-> [dbus EXCEPT !.greeted = TRUE]]

\* hello without `self.greeted = true`
hello_never_greets(dbus) ==
    IF dbus.greeted
    THEN [reply |-> "Failed", name |-> None, dbus |-> dbus]
    ELSE [reply |-> "Ok", name |-> Some(dbus.unique_name), dbus |-> dbus]

\* DBus::hello: the reply, the name returned and the object afterwards
hello(dbus) ==
    IF dbus.greeted
    THEN [reply |-> "Failed", name |-> None, dbus |-> dbus]
    ELSE [reply |-> "Ok", name |-> Some(dbus.unique_name),
          dbus |-> [dbus EXCEPT !.greeted = TRUE]]

\* request_name that claims the name for the first connection of the bus
request_name_for_first(dbus, reg, name, flags) ==
    registry_request_name(reg, name, UniqueNameOf(1), flags)

\* DBus::request_name: the registry's reply and the registry afterwards
request_name(dbus, reg, name, flags) ==
    registry_request_name(reg, name, dbus.unique_name, flags)

\* DBus::release_name: the registry's reply and the registry afterwards
release_name(dbus, reg, name) ==
    registry_release_name(reg, name, dbus.unique_name)

\* get_name_owner that answers for a unique name only if it is the caller's own
get_name_owner_own_only(dbus, reg, name) ==
    IF name.kind = "WellKnown"
    THEN IF lookup(reg, name.name) = None
         THEN [reply |-> "NameHasNoOwner", name |-> None]
         ELSE [reply |-> "Ok", name |-> lookup(reg, name.name)]
    ELSE IF name.name = dbus.unique_name
    THEN [reply |-> "Ok", name |-> Some(name.name)]
    ELSE [reply |-> "NameHasNoOwner", name |-> None]

\* DBus::get_name_owner: the reply and the owner returned
get_name_owner(dbus, reg, name) ==
    IF name.kind = "WellKnown"
    THEN IF lookup(reg, name.name) = None
         THEN [reply |-> "NameHasNoOwner", name |-> None]
         ELSE [reply |-> "Ok", name |-> lookup(reg, name.name)]
    ELSE [reply |-> "Ok", name |-> Some(name.name)]

\* add_match that registers rules only once the connection has said Hello
add_match_greeted_only(dbus, rule) ==
    IF dbus.greeted THEN [dbus EXCEPT !.match_rules = HashSetInsert(@, rule)] ELSE dbus

\* DBus::add_match: the object afterwards
add_match(dbus, rule) ==
    [dbus EXCEPT !.match_rules = HashSetInsert(@, rule)]

\* remove_match with the test on HashSet::remove's result inverted
remove_match_inverted(dbus, rule) ==
    IF HashSetRemove(dbus.match_rules, rule).removed
    THEN [reply |-> "MatchRuleNotFound",
          dbus |-> [dbus EXCEPT !.match_rules = HashSetRemove(@, rule).set]]
    ELSE [reply |-> "Ok", dbus |-> dbus]

\* DBus::remove_match: the reply and the object afterwards
remove_match(dbus, rule) ==
    IF ~HashSetRemove(dbus.match_rules, rule).removed
    THEN [reply |-> "MatchRuleNotFound", dbus |-> dbus]
    ELSE [reply |-> "Ok",
          dbus |-> [dbus EXCEPT !.match_rules = HashSetRemove(@, rule).set]]

----------------------------------------------------------------------------
(* The state machine: the calls made on the connections *)

\* what is recorded of a call: the operation, the connection, its reply and
\* the unique name it returned (Hello, GetNameOwner).  An AddMatch also records
\* its rule and the rule set before it; a RemoveMatch that directly follows
\* the AddMatch of the same rule on the same connection carries both on.
NoCall == [op |-> "none", conn |-> 0, reply |-> "", name |-> None,
           rule |-> None, pre |-> EmptyBag]

Call(op, conn, reply, name) == [NoCall EXCEPT !.op = op, !.conn = conn, !.reply = reply, !.name = name]

\* the call before was AddMatch(rule) on connection c
FollowsAdd(c, rule) == last.op = "add_match" /\ last.conn = c /\ last.rule = Some(rule)

Conns == DOMAIN peers

\* the number of match rules registered on the bus
RuleCount(P, S) == Cardinality({<<c, r>> \in S \X MatchRules : BagIn(r, P[c].dbus.match_rules)})

\* no interested() call is in progress
NoEval ==
    [pc |-> "idle", conn |-> 0, msg |-> NoHeaderMsg, rule |-> None, result |-> "",
     rules0 |-> EmptyBag, visited |-> {}, looked |-> {}, regs |-> {}]

Init ==
    /\ next_id = 1
    /\ peers = <<>>
    /\ names = [n \in WellKnownNames |-> <<>>]
    /\ last = NoCall
    /\ eval = NoEval

\* Peer::new succeeds: the Peer and its DBus object exist from here on
PeerNew ==
    /\ next_id <= MaxId
    /\ peers' = peers @@ (next_id :>
            [unique_name |-> UniqueNameOf(next_id),
             dbus |-> DBusNew(UniqueNameOf(next_id))])
    /\ next_id' = next_id + 1
    /\ last' = Call("new", next_id, "Ok", None)
    /\ UNCHANGED <<names, eval>>

\* Peer::new fails in the handshake (build().await?): no Peer is built
PeerNewFails ==
    /\ next_id <= MaxId
    /\ last' = Call("new", next_id, "Err", None)
    /\ UNCHANGED <<next_id, peers, names, eval>>

Hello(c) ==
    /\ peers' = [peers EXCEPT ![c].dbus = hello(@).dbus]
    /\ last' = Call("hello", c, hello(peers[c].dbus).reply, hello(peers[c].dbus).name)
    /\ UNCHANGED <<next_id, names, eval>>

RequestName(c, name, flags) ==
    /\ names' = request_name(peers[c].dbus, names, name, flags).names
    /\ last' = Call("request_name", c, request_name(peers[c].dbus, names, name, flags).reply, None)
    /\ UNCHANGED <<next_id, peers, eval>>

ReleaseName(c, name) ==
    /\ names' = release_name(peers[c].dbus, names, name).names
    /\ last' = Call("release_name", c, release_name(peers[c].dbus, names, name).reply, None)
    /\ UNCHANGED <<next_id, peers, eval>>

GetNameOwner(c, name) ==
    /\ last' = Call("get_name_owner", c, get_name_owner(peers[c].dbus, names, name).reply,
                    get_name_owner(peers[c].dbus, names, name).name)
    /\ UNCHANGED <<next_id, peers, names, eval>>

\* AddMatch on a rule set that all connections share
AddMatch_on_shared_set(c, rule) ==
    /\ peers' = [p \in Conns |-> [peers[p] EXCEPT !.dbus = add_match(@, rule)]]
    /\ last' = [Call("add_match", c, "Ok", None) EXCEPT
                    !.rule = Some(rule), !.pre = peers[c].dbus.match_rules]
    /\ UNCHANGED <<next_id, names, eval>>

AddMatch(c, rule) ==
    /\ peers' = [peers EXCEPT ![c].dbus = add_match(@, rule)]
    /\ last' = [Call("add_match", c, "Ok", None) EXCEPT
                    !.rule = Some(rule), !.pre = peers[c].dbus.match_rules]
    /\ UNCHANGED <<next_id, names, eval>>

RemoveMatch(c, rule) ==
    /\ peers' = [peers EXCEPT ![c].dbus = remove_match(@, rule).dbus]
    /\ last' = [Call("remove_match", c, remove_match(peers[c].dbus, rule).reply, None) EXCEPT
                    !.rule = IF FollowsAdd(c, rule) THEN Some(rule) ELSE None,
                    !.pre = IF FollowsAdd(c, rule) THEN last.pre ELSE EmptyBag]
    /\ UNCHANGED <<next_id, names, eval>>

\* an evaluation that drops the rules of the connection it was asked about
Interested_drops_rules(c, msg) ==
    /\ \E out \in interested(peers[c].dbus, msg, names) :
           last' = Call("interested", c, out, None)
    /\ peers' = [peers EXCEPT ![c].dbus.match_rules = HashSetNew]
    /\ UNCHANGED <<next_id, names, eval>>

\* Peer::interested, called by the router for a message
Interested(c, msg) ==
    /\ \E out \in interested(peers[c].dbus, msg, names) :
           last' = Call("interested", c, out, None)
    /\ UNCHANGED <<next_id, peers, names, eval>>

Next ==
    \/ PeerNew
    \/ PeerNewFails
    \/ \E c \in Conns : Hello(c)
    \/ \E c \in Conns, n \in WellKnownNames, f \in FlagSets :
           RequestName(c, n, f)
    \/ \E c \in Conns, n \in WellKnownNames : ReleaseName(c, n)
    \/ \E c \in Conns, b \in BusNames : GetNameOwner(c, b)
    \/ /\ RuleCount(peers, Conns) < MaxRules
       /\ \E c \in Conns, r \in MatchRules : AddMatch(c, r)
    \/ \E c \in Conns, r \in MatchRules : RemoveMatch(c, r)
    \/ \E c \in Conns, m \in Messages : Interested(c, m)

Spec == Init /\ [][Next]_vars

----------------------------------------------------------------------------
(* The evaluation rule by rule, concurrent with the calls of the connections *)

\* the messages the router asks about while calls are in progress
RaceMessages ==
    {NoHeaderMsg, [header |-> TRUE, sender |-> Unset, destination |-> Unset]}
        \cup {Msg(UniqueNameOf(1), b) : b \in BusNames}

\* the evaluation is between taking the interface's read guard and returning
Evaluating == {"iter", "sender", "destination"}

\* the read guard of dbus_ref.get() on connection c's interface is held
ReadLocked(c) == eval.pc \in Evaluating /\ eval.conn = c

\* a &mut self method that does not wait for the readers of the interface
CanWrite_unlocked(c) == TRUE

\* a &mut self method of connection c's interface can take the write guard
CanWrite(c) == ~ReadLocked(c)

\* the closure asks the registry for the owner of any sender name
sender_lookup_any_name(rule) == rule.sender # None

\* the closure asks the registry for the owner of the rule's sender
sender_lookup(rule) == rule.sender # None /\ Unwrap(rule.sender).kind = "WellKnown"

\* the closure asks the registry for the owner of the message's destination
destination_lookup(rule, msg) ==
    /\ rule.destination # None
    /\ msg.destination.st = "Ok"
    /\ msg.destination.val # None
    /\ Unwrap(msg.destination.val).kind = "WellKnown"

\* no result waits for the router: a result is taken before the next call
NoneReturned == eval.pc # "done"

\* the registry states an evaluation in progress has lived through
Lived(reg) == IF eval.pc \in Evaluating THEN [eval EXCEPT !.regs = @ \cup {reg}] ELSE eval

NewPeer ==
    /\ NoneReturned
    /\ next_id <= MaxId
    /\ peers' = peers @@ (next_id :>
            [unique_name |-> UniqueNameOf(next_id),
             dbus |-> DBusNew(UniqueNameOf(next_id))])
    /\ next_id' = next_id + 1
    /\ UNCHANGED <<names, last, eval>>

CallRequestName(c, name, flags) ==
    /\ NoneReturned
    /\ names' = request_name(peers[c].dbus, names, name, flags).names
    /\ eval' = Lived(names')
    /\ UNCHANGED <<next_id, peers, last>>

CallReleaseName(c, name) ==
    /\ NoneReturned
    /\ names' = release_name(peers[c].dbus, names, name).names
    /\ eval' = Lived(names')
    /\ UNCHANGED <<next_id, peers, last>>

CallAddMatch(c, rule) ==
    /\ NoneReturned
    /\ CanWrite(c)
    /\ peers' = [peers EXCEPT ![c].dbus = add_match(@, rule)]
    /\ UNCHANGED <<next_id, names, last, eval>>

CallRemoveMatch(c, rule) ==
    /\ NoneReturned
    /\ CanWrite(c)
    /\ peers' = [peers EXCEPT ![c].dbus = remove_match(@, rule).dbus]
    /\ UNCHANGED <<next_id, names, last, eval>>

\* lines 65-72: take the read guard, read the header
EvalBegin(c, msg) ==
    /\ eval.pc = "idle"
    /\ eval' = [NoEval EXCEPT
                    !.pc = IF msg.header THEN "iter" ELSE "done",
                    !.result = IF msg.header THEN "" ELSE NoHeader,
                    !.conn = c, !.msg = msg,
                    !.rules0 = peers[c].dbus.match_rules, !.regs = {names}]
    /\ UNCHANGED <<next_id, peers, names, last>>

\* lines 74-84: the iterator's next rule and its structural match
EvalRule ==
    /\ eval.pc = "iter"
    /\ LET left == BagToSet(peers[eval.conn].dbus.match_rules) \ eval.visited
       IN IF left = {}
          THEN eval' = [eval EXCEPT !.pc = "done", !.result = "false"]
          ELSE \E rule \in left :
                   eval' = IF matches(rule, eval.msg) = "true"
                           THEN [eval EXCEPT !.pc = "sender", !.rule = Some(rule),
                                             !.visited = @ \cup {rule}]
                           ELSE [eval EXCEPT !.visited = @ \cup {rule}]
    /\ UNCHANGED <<next_id, peers, names, last>>

\* lines 87-101: the sender of the rule
EvalSender ==
    /\ eval.pc = "sender"
    /\ LET rule == Unwrap(eval.rule)
           sender == resolved_sender(rule, names)
           asked == [eval EXCEPT !.looked =
                        IF sender_lookup(rule) THEN @ \cup {<<rule, "sender">>} ELSE @]
       IN eval' = IF sender = None
                  THEN [asked EXCEPT !.pc = "destination"]
                  ELSE IF eval.msg.sender.st = "Err" \/ eval.msg.sender.val = None
                  THEN [asked EXCEPT !.pc = "done", !.result = NoSender]
                  ELSE IF sender # eval.msg.sender.val
                  THEN [asked EXCEPT !.pc = "iter", !.rule = None]
                  ELSE [asked EXCEPT !.pc = "destination"]
    /\ UNCHANGED <<next_id, peers, names, last>>

\* lines 104-121: the destination of the message
EvalDestination ==
    /\ eval.pc = "destination"
    /\ LET rule == Unwrap(eval.rule)
           out == destination_check(rule, eval.msg, names)
           asked == [eval EXCEPT !.looked =
                        IF destination_lookup(rule, eval.msg)
                        THEN @ \cup {<<rule, "destination">>} ELSE @]
       IN eval' = IF out = "pass"
                  THEN [asked EXCEPT !.pc = "done", !.result = "true"]
                  ELSE IF out = "fail"
                  THEN [asked EXCEPT !.pc = "iter", !.rule = None]
                  ELSE [asked EXCEPT !.pc = "done", !.result = out]
    /\ UNCHANGED <<next_id, peers, names, last>>

\* the router has taken the result
EvalReturn ==
    /\ eval.pc = "done"
    /\ eval' = NoEval
    /\ UNCHANGED <<next_id, peers, names, last>>

RaceNext ==
    \/ NewPeer
    \/ \E c \in Conns, n \in WellKnownNames, f \in FlagSets :
           CallRequestName(c, n, f)
    \/ \E c \in Conns, n \in WellKnownNames : CallReleaseName(c, n)
    \/ /\ RuleCount(peers, Conns) < MaxRules
       /\ \E c \in Conns, r \in MatchRules : CallAddMatch(c, r)
    \/ \E c \in Conns, r \in MatchRules : CallRemoveMatch(c, r)
    \/ \E c \in Conns, m \in RaceMessages : EvalBegin(c, m)
    \/ EvalRule
    \/ EvalSender
    \/ EvalDestination
    \/ EvalReturn

RaceSpec == Init /\ [][RaceNext]_vars

----------------------------------------------------------------------------
(* Properties *)

Rules(c) == peers[c].dbus.match_rules
Greeted(P, c) == P[c].dbus.greeted

HasSender(m) == m.header /\ m.sender.st = "Ok" /\ m.sender.val # None
HasDestination(m) == m.header /\ m.destination.st = "Ok" /\ m.destination.val # None

\* the rule whose only criterion is sender = the well-known name w
SenderRule(w) == [sender |-> Some(WellKnown(w)), destination |-> None]

\* C1: a connection starts not greeted; a Hello on a connection that is not
\* greeted succeeds, returns the connection's unique name and sets greeted; a
\* Hello on a greeted connection fails with Failed("Can only call `Hello`
\* method once") and leaves greeted true; greeted never goes back to false
\* and only a successful Hello of that connection changes it.
C1_HelloOnce ==
    [][/\ \A c \in DOMAIN peers' \ Conns : ~Greeted(peers', c)
       /\ \A c \in Conns :
            /\ Greeted(peers, c) => Greeted(peers', c)
            /\ Greeted(peers', c) # Greeted(peers, c) =>
                   last' = Call("hello", c, "Ok", Some(peers[c].unique_name))
       /\ last'.op = "hello" =>
            /\ Greeted(peers', last'.conn)
            /\ IF Greeted(peers, last'.conn)
               THEN last'.reply = "Failed" /\ last'.name = None /\ peers' = peers
               ELSE last'.reply = "Ok"
                    /\ last'.name = Some(peers[last'.conn].unique_name)]_vars

\* C1's case: a second Hello on a connection has failed
C1_Witness ==
    /\ last.op = "hello"
    /\ last.reply = "Failed"
    /\ Greeted(peers, last.conn)

\* C2: with the single rule sender = W, interested(message from S) is true
\* exactly when the registry reports W owned by S; with W unowned it is false.
C2_SenderRuleFollowsOwner ==
    \A c \in Conns, w \in WellKnownNames, m \in Messages :
        (HasSender(m) /\ Rules(c) = SetToBag({SenderRule(w)})) =>
            /\ lookup(names, w) = m.sender.val => interested(peers[c].dbus, m, names) = {"true"}
            /\ lookup(names, w) # m.sender.val => interested(peers[c].dbus, m, names) = {"false"}

\* C3: when a ReleaseName leaves W unowned, a connection with the rule
\* sender = W that was interested in a message of W's owner before the
\* release is not interested in the same message after it.
C3_ReleaseEndsInterest ==
    [][\A c \in Conns, w \in WellKnownNames, m \in Messages :
        (/\ last'.op = "release_name"
         /\ last'.reply = "Released"
         /\ lookup(names', w) = None
         /\ HasSender(m)
         /\ lookup(names, w) = m.sender.val
         /\ BagIn(SenderRule(w), Rules(c))
         /\ interested(peers[c].dbus, m, names) = {"true"})
        => interested(peers'[c].dbus, m, names') = {"false"}]_vars

\* C4 as stated: a RemoveMatch(r) directly after AddMatch(r) on the same
\* connection leaves the rule set as it was before the AddMatch(r).
C4_RoundTrip ==
    (last.op = "remove_match" /\ last.rule # None) => Rules(last.conn) = last.pre

\* C4, amended: a RemoveMatch(r) directly after AddMatch(r) on the same
\* connection succeeds; it leaves the rule set as it was before the
\* AddMatch(r) if r was not in it then, and leaves that set without r if r
\* was already in it.
C4_RoundTripWhenAbsent ==
    /\ \A c \in Conns, r \in MatchRules :
           remove_match(add_match(peers[c].dbus, r), r).reply = "Ok"
    /\ (last.op = "remove_match" /\ last.rule # None) =>
           /\ last.reply = "Ok"
           /\ Rules(last.conn) = IF BagIn(Unwrap(last.rule), last.pre)
                                 THEN last.pre (-) SetToBag({Unwrap(last.rule)})
                                 ELSE last.pre

\* C4's case: AddMatch(r) of a new rule r, then RemoveMatch(r), on a
\* connection that holds another rule
C4_Witness ==
    /\ last.op = "remove_match"
    /\ last.rule # None
    /\ ~BagIn(Unwrap(last.rule), last.pre)
    /\ last.pre # EmptyBag
    /\ Rules(last.conn) = last.pre

\* C5: RemoveMatch(r) fails with MatchRuleNotFound exactly when r is not in
\* the connection's rule set, and then changes nothing; when it succeeds the
\* rule set afterwards is the set before without r, every other rule kept,
\* and nothing else of any connection changes.
C5_RemoveMatch ==
    /\ [](\A c \in Conns, r \in MatchRules :
            /\ remove_match(peers[c].dbus, r).reply = "MatchRuleNotFound" <=> ~BagIn(r, Rules(c))
            /\ remove_match(peers[c].dbus, r).reply \in {"Ok", "MatchRuleNotFound"}
            /\ ~BagIn(r, Rules(c)) => remove_match(peers[c].dbus, r).dbus = peers[c].dbus
            /\ BagIn(r, Rules(c)) =>
                   /\ BagToSet(remove_match(peers[c].dbus, r).dbus.match_rules)
                          = BagToSet(Rules(c)) \ {r}
                   /\ remove_match(peers[c].dbus, r).dbus
                          = [peers[c].dbus EXCEPT !.match_rules = @ (-) SetToBag({r})])
    /\ [][last'.op = "remove_match" =>
            /\ last'.reply = "MatchRuleNotFound" => peers' = peers
            /\ last'.reply = "Ok" =>
                   \E r \in BagToSet(Rules(last'.conn)) :
                       peers' = [peers EXCEPT ![last'.conn].dbus.match_rules = @ (-) SetToBag({r})]
            /\ UNCHANGED <<next_id, names>>]_vars

\* C5's case: a RemoveMatch has succeeded and left another rule in the set
C5_Witness ==
    /\ last.op = "remove_match"
    /\ last.reply = "Ok"
    /\ Rules(last.conn) # EmptyBag

\* C6: AddMatch never fails and is idempotent; a rule set holds each rule
\* value at most once, so one RemoveMatch(r) leaves no r in it.
C6_AddMatchIdempotent ==
    /\ last.op = "add_match" =>
           /\ last.reply = "Ok"
           /\ BagIn(Unwrap(last.rule), Rules(last.conn))
           /\ BagIn(Unwrap(last.rule), last.pre) => Rules(last.conn) = last.pre
    /\ \A c \in Conns, r \in MatchRules :
           /\ add_match(add_match(peers[c].dbus, r), r) = add_match(peers[c].dbus, r)
           /\ CopiesIn(r, Rules(c)) <= 1
           /\ CopiesIn(r, add_match(peers[c].dbus, r).match_rules) = 1
           /\ ~BagIn(r, remove_match(peers[c].dbus, r).dbus.match_rules)

\* C6's case: an AddMatch of a rule that was already in the set
C6_Witness ==
    /\ last.op = "add_match"
    /\ BagIn(Unwrap(last.rule), last.pre)
    /\ Rules(last.conn) = last.pre

\* the unique names no connection built so far has
NotLive == {u \in UniqueNames : \A c \in Conns : peers[c].unique_name # u}

C8_EmptyNotInterested ==
    \A c \in Conns, m \in Messages :
        Rules(c) = EmptyBag => interested(peers[c].dbus, m, names) = {"false"}

\* C8, amended: with an empty rule set interested() is false for every
\* message whose header can be read, in every registry state; for a message
\* without a header it panics.
C8_EmptyNotInterestedWithHeader ==
    \A c \in Conns, m \in Messages :
        Rules(c) = EmptyBag =>
            interested(peers[c].dbus, m, names) = IF m.header THEN {"false"} ELSE {NoHeader}

\* C8's case: interested() returned false on a connection without rules while
\* the registry has an owner for a name
C8_Witness ==
    /\ last.op = "interested"
    /\ last.reply = "false"
    /\ Rules(last.conn) = EmptyBag
    /\ \E w \in WellKnownNames : names[w] # <<>>

\* the messages whose destination field is a well-known name
ToWellKnown == {m \in Messages : HasDestination(m) /\ Unwrap(m.destination.val).kind = "WellKnown"}
DestinationName(m) == Unwrap(m.destination.val).name

\* C9 as stated: a rule with destination D passes for a message to the
\* well-known name N only if N is owned by D, and fails if N is unowned or
\* owned by another; interested() is false if every rule has a destination
\* criterion and N is unowned.
C9_DestinationOwner ==
    \A c \in Conns, m \in ToWellKnown :
        /\ \A rule \in BagToSet(Rules(c)) :
               rule.destination # None =>
                   /\ rule_interested(rule, m, names) = "true"
                          => lookup(names, DestinationName(m)) = rule.destination
                   /\ lookup(names, DestinationName(m)) # rule.destination
                          => rule_interested(rule, m, names) = "false"
        /\ (/\ Rules(c) # EmptyBag
            /\ \A rule \in BagToSet(Rules(c)) : rule.destination # None
            /\ lookup(names, DestinationName(m)) = None)
               => interested(peers[c].dbus, m, names) = {"false"}

\* C9, amended: the same for a message that carries a sender field.
C9_DestinationOwnerWithSender ==
    \A c \in Conns, m \in ToWellKnown :
        /\ \A rule \in BagToSet(Rules(c)) :
               rule.destination # None =>
                   /\ rule_interested(rule, m, names) = "true"
                          => lookup(names, DestinationName(m)) = rule.destination
                   /\ (HasSender(m) /\ lookup(names, DestinationName(m)) # rule.destination)
                          => rule_interested(rule, m, names) = "false"
        /\ (/\ HasSender(m)
            /\ Rules(c) # EmptyBag
            /\ \A rule \in BagToSet(Rules(c)) : rule.destination # None
            /\ lookup(names, DestinationName(m)) = None)
               => interested(peers[c].dbus, m, names) = {"false"}

\* C9's case: interested() returned false on a connection whose rules all
\* have a destination criterion that is not the owner of the well-known
\* name, where every message to a unique name that a rule names passes
C9_Witness ==
    /\ last.op = "interested"
    /\ last.reply = "false"
    /\ Rules(last.conn) # EmptyBag
    /\ \A rule \in BagToSet(Rules(last.conn)) :
           /\ rule.destination # None
           /\ rule.sender = None
           /\ \E w \in WellKnownNames :
                  /\ lookup(names, w) \notin {None, rule.destination}
                  /\ \A u \in UniqueNames :
                         rule_interested(rule, Msg(u, WellKnown(w)), names) = "false"

\* the messages that lack a header, a sender field or a destination field
Lacking == {m \in Messages : ~m.header \/ ~HasSender(m) \/ ~HasDestination(m)}

\* C10 as stated: for a message lacking a header, a sender field or a
\* destination field interested() does not abort and returns false.
C10_FailsClosed ==
    \A c \in Conns, m \in Lacking : interested(peers[c].dbus, m, names) = {"false"}

\* a rule that passes the structural match and then reads a field the
\* message lacks: the sender, for a well-known sender criterion whose name
\* has an owner; the destination, for a destination criterion
NeedsLackingField(rule, m, reg) ==
    /\ matches(rule, m) = "true"
    /\ \/ /\ rule.sender # None
          /\ Unwrap(rule.sender).kind = "WellKnown"
          /\ lookup(reg, Unwrap(rule.sender).name) # None
          /\ ~HasSender(m)
       \/ /\ rule.destination # None
          /\ ~HasDestination(m)
          /\ \/ rule.sender = None
             \/ Unwrap(rule.sender).kind = "Unique"
             \/ lookup(reg, Unwrap(rule.sender).name) \in {None, m.sender.val}

\* C10, amended: interested() panics for a message without a header; for a
\* message with a header it can panic exactly when some rule of the set
\* passes the structural match and then reads a sender or destination field
\* the message lacks, and otherwise returns true or false; the evaluation
\* changes no state.
C10_PanicsOnLackingField ==
    /\ [](\A c \in Conns, m \in Messages :
            LET results == interested(peers[c].dbus, m, names)
            IN /\ ~m.header => results = {NoHeader}
               /\ m.header =>
                      (results \cap Panics # {}
                          <=> \E rule \in BagToSet(Rules(c)) : NeedsLackingField(rule, m, names))
               /\ results \subseteq {"true", "false"} \cup Panics
               /\ results # {})
    /\ [][last'.op = "interested" => UNCHANGED <<next_id, peers, names>>]_vars

\* C10's case: interested() panicked on a message that has a header and no
\* sender field
C10_Witness ==
    /\ last.op = "interested"
    /\ last.reply = NoSender
    /\ \E rule \in BagToSet(Rules(last.conn)) : resolved_sender(rule, names) # None

\* C11: the connection built with id n has the unique name ":busd." followed
\* by n; connections with distinct ids have distinct unique names; the name
\* the Peer reports and the name Hello returns are that name, and no
\* operation changes it.
C11_UniqueName ==
    /\ [](\A c \in Conns :
            /\ peers[c].unique_name = ":busd." \o ToString(c)
            /\ peers[c].dbus.unique_name = peers[c].unique_name
            /\ \A d \in Conns : c # d => peers[c].unique_name # peers[d].unique_name
            /\ hello([peers[c].dbus EXCEPT !.greeted = FALSE]).name = Some(peers[c].unique_name))
    /\ [](last.op = "hello" /\ last.reply = "Ok" =>
            last.name = Some(":busd." \o ToString(last.conn)))
    /\ [][\A c \in Conns :
            /\ c \in DOMAIN peers'
            /\ peers'[c].unique_name = peers[c].unique_name
            /\ peers'[c].dbus.unique_name = peers[c].dbus.unique_name]_vars

\* C11's case: the second connection, after registering a rule, is told its
\* unique name by Hello while the first connection exists
C11_Witness ==
    /\ Conns = {1, 2}
    /\ last = Call("hello", 2, "Ok", Some(":busd.2"))
    /\ Rules(2) # EmptyBag
    /\ peers[1].unique_name = ":busd.1"

\* C12: RequestName and ReleaseName on a connection give the registry that
\* connection's own unique name as the owner, return the registry's reply
\* unchanged and leave greeted and the rule set of every connection as
\* they were.
C12_Delegates ==
    /\ [](\A c \in Conns, w \in WellKnownNames :
            /\ \A f \in FlagSets :
                   request_name(peers[c].dbus, names, w, f)
                       = registry_request_name(names, w, peers[c].unique_name, f)
            /\ release_name(peers[c].dbus, names, w)
                   = registry_release_name(names, w, peers[c].unique_name))
    /\ [][last'.op = "request_name" =>
            /\ UNCHANGED <<next_id, peers>>
            /\ \E w \in WellKnownNames, f \in FlagSets :
                   /\ [reply |-> last'.reply, names |-> names']
                          = registry_request_name(names, w, peers[last'.conn].unique_name, f)
                   /\ last'.reply = "PrimaryOwner" =>
                          lookup(names', w) = Some(peers[last'.conn].unique_name)]_vars
    /\ [][last'.op = "release_name" =>
            /\ UNCHANGED <<next_id, peers>>
            /\ \E w \in WellKnownNames :
                   [reply |-> last'.reply, names |-> names']
                       = registry_release_name(names, w, peers[last'.conn].unique_name)]_vars

\* C12's case: the second connection, holding a rule, has asked for a name
\* the first connection owns and was queued behind it
C12_Witness ==
    /\ last.op = "request_name"
    /\ last.conn = 2
    /\ last.reply = "InQueue"
    /\ names["org.example.Foo"] = <<":busd.1", ":busd.2">>
    /\ Rules(2) # EmptyBag

\* the replies that are recoverable protocol errors
ProtocolErrors == {"Failed", "MatchRuleNotFound", "NameHasNoOwner"}

\* C13: a call that ends in a recoverable protocol error (a second Hello, a
\* RemoveMatch of an absent rule, a GetNameOwner of an unowned well-known
\* name) leaves greeted, the rule sets and the registry as they were, and
\* the connection stays in place.
C13_ErrorsChangeNothing ==
    /\ [](\A c \in Conns :
            /\ hello(peers[c].dbus).reply = "Failed" => hello(peers[c].dbus).dbus = peers[c].dbus
            /\ \A r \in MatchRules :
                   remove_match(peers[c].dbus, r).reply = "MatchRuleNotFound"
                       => remove_match(peers[c].dbus, r).dbus = peers[c].dbus)
    /\ [][(last'.op \in {"hello", "remove_match", "get_name_owner"}
            /\ last'.reply \in ProtocolErrors)
               => /\ UNCHANGED <<next_id, peers, names>>
                  /\ last'.conn \in DOMAIN peers']_vars

\* C13's case: a RemoveMatch of an absent rule has failed on a greeted
\* connection that holds another rule, while a name is owned
C13_Witness ==
    /\ last.op = "remove_match"
    /\ last.reply = "MatchRuleNotFound"
    /\ Greeted(peers, last.conn)
    /\ Rules(last.conn) # EmptyBag
    /\ \E w \in WellKnownNames : lookup(names, w) # None

\* Stage B of the closure for a rule: the sender its well-known sender
\* criterion resolves to, if any, is the message's sender, and the
\* destination check passes
StageB(rule, m, reg) ==
    /\ resolved_sender(rule, reg) # None => resolved_sender(rule, reg) = m.sender.val
    /\ destination_check(rule, m, reg) = "pass"

\* the rule passes the structural match (Stage A) and Stage B
Passes(rule, m, reg) == matches(rule, m) = "true" /\ StageB(rule, m, reg)

\* the rule's closure panics on the message
RulePanics(rule, m, reg) == rule_interested(rule, m, reg) \in Panics

C15_EvaluationChangesNothing ==
    [][last'.op = "interested" =>
          /\ DOMAIN peers' = Conns
          /\ Greeted(peers', last'.conn) = Greeted(peers, last'.conn)
          /\ peers'[last'.conn].dbus.match_rules = Rules(last'.conn)
          /\ \A b \in Conns : peers'[b] = peers[b]
          /\ \A w \in WellKnownNames : names'[w] = names[w]
          /\ next_id' = next_id]_vars

\* C15's case: interested() returned true on a greeted connection with a
\* rule, with another connection present and a name owned
C15_Witness ==
    /\ last.op = "interested"
    /\ last.reply = "true"
    /\ Greeted(peers, last.conn)
    /\ Rules(last.conn) # EmptyBag
    /\ Conns = {1, 2}
    /\ \E w \in WellKnownNames : lookup(names, w) # None

\* C17: a Hello, AddMatch or RemoveMatch on a connection changes neither
\* greeted nor the rule set of any other connection, nor the registry; no
\* call on a connection changes the state of another connection.
C17_Isolation ==
    /\ [][last'.op \in {"hello", "add_match", "remove_match"} =>
            /\ \A b \in Conns \ {last'.conn} :
                   /\ Greeted(peers', b) = Greeted(peers, b)
                   /\ peers'[b].dbus.match_rules = Rules(b)
            /\ names' = names]_vars
    /\ [][\A b \in Conns \ {last'.conn} : peers'[b] = peers[b]]_vars

\* C17's case: an AddMatch on one connection while the other connection
\* holds a rule this connection does not hold and differs in greeted
C17_Witness ==
    /\ last.op = "add_match"
    /\ \E b \in Conns \ {last.conn} :
           /\ Rules(b) # EmptyBag
           /\ BagToSet(Rules(b)) \cap BagToSet(Rules(last.conn)) = {}
           /\ Greeted(peers, b) # Greeted(peers, last.conn)

\* the DBus object with greeted the other way round
Regreeted(dbus) == [dbus EXCEPT !.greeted = ~@]

\* C19: only Hello reads greeted: RequestName, ReleaseName, GetNameOwner,
\* AddMatch, RemoveMatch and interested() do the same on a connection that
\* has said Hello and on one that has not.
C19_GreetedGatesOnlyHello ==
    \A c \in Conns :
        LET d == peers[c].dbus
            e == Regreeted(peers[c].dbus)
        IN /\ hello(d).reply # hello(e).reply
           /\ \A w \in WellKnownNames :
                  /\ \A f \in FlagSets : request_name(e, names, w, f) = request_name(d, names, w, f)
                  /\ release_name(e, names, w) = release_name(d, names, w)
           /\ \A b \in BusNames : get_name_owner(e, names, b) = get_name_owner(d, names, b)
           /\ \A r \in MatchRules :
                  /\ add_match(e, r) = Regreeted(add_match(d, r))
                  /\ remove_match(e, r).reply = remove_match(d, r).reply
                  /\ remove_match(e, r).dbus = Regreeted(remove_match(d, r).dbus)
           /\ \A m \in Messages : interested(e, m, names) = interested(d, m, names)

\* C19's case: a connection that never said Hello owns a name and has just
\* registered a rule
C19_Witness ==
    /\ last.op = "add_match"
    /\ ~Greeted(peers, last.conn)
    /\ Rules(last.conn) # EmptyBag
    /\ \E w \in WellKnownNames : lookup(names, w) = Some(peers[last.conn].unique_name)

\* C16: an evaluation in progress on a connection sees one rule set: while
\* it holds the read guard the connection's rule set is the set it started
\* with, no AddMatch or RemoveMatch of that connection takes effect, every
\* rule it inspects is of that set, and a result of false has inspected
\* exactly the rules of that set.
C16_Serialized ==
    /\ [](eval.pc \in Evaluating =>
            /\ peers[eval.conn].dbus.match_rules = eval.rules0
            /\ eval.visited \subseteq BagToSet(eval.rules0)
            /\ eval.rule # None => Unwrap(eval.rule) \in BagToSet(eval.rules0))
    /\ [](eval.pc = "done" =>
            /\ eval.visited \subseteq BagToSet(eval.rules0)
            /\ (eval.result = "false" => eval.visited = BagToSet(eval.rules0)))
    /\ [][eval.pc \in Evaluating =>
            peers'[eval.conn].dbus.match_rules = peers[eval.conn].dbus.match_rules]_vars

\* C16's case: an evaluation has inspected a rule and has another one left,
\* which a RemoveMatch would take, while calls on the registry went on
C16_Witness ==
    /\ eval.pc = "iter"
    /\ eval.visited # {}
    /\ BagToSet(eval.rules0) \ eval.visited # {}
    /\ Cardinality(eval.regs) > 1

\* C18: an evaluation asks the registry only for a rule that passed the
\* structural match; for the sender only if the rule's sender criterion is a
\* well-known name; for the destination only if the rule has a destination
\* criterion and the message's destination is a well-known name.
C18_LookupsOnlyWhenNeeded ==
    \A l \in eval.looked :
        /\ l[1] \in BagToSet(eval.rules0)
        /\ matches(l[1], eval.msg) = "true"
        /\ l[2] = "sender" =>
               /\ l[1].sender # None
               /\ Unwrap(l[1].sender).kind = "WellKnown"
        /\ l[2] = "destination" =>
               /\ l[1].destination # None
               /\ HasDestination(eval.msg)
               /\ Unwrap(eval.msg.destination.val).kind = "WellKnown"

\* C18's case: an evaluation of a message to a unique name is over that
\* inspected a rule with a well-known sender which failed the structural
\* match, and asked the registry nothing about it, and another rule for
\* which it asked the registry for the sender only
C18_Witness ==
    /\ eval.pc = "done"
    /\ HasDestination(eval.msg)
    /\ Unwrap(eval.msg.destination.val).kind = "Unique"
    /\ \E r1, r2 \in eval.visited :
           /\ r1.sender # None
           /\ Unwrap(r1.sender).kind = "WellKnown"
           /\ matches(r1, eval.msg) = "false"
           /\ r2.destination # None
           /\ eval.looked = {<<r2, "sender">>}

\* the rule's sender criterion holds of the message in the registry state
SenderHolds(rule, m, reg) ==
    \/ rule.sender = None
    \/ Unwrap(rule.sender).kind = "Unique"
    \/ /\ Unwrap(rule.sender).kind = "WellKnown"
       /\ \/ lookup(reg, Unwrap(rule.sender).name) = None
          \/ HasSender(m) /\ lookup(reg, Unwrap(rule.sender).name) = m.sender.val

\* the rule's destination criterion holds of the message in the registry state
DestinationHolds(rule, m, reg) ==
    \/ rule.destination = None
    \/ /\ HasDestination(m)
       /\ \/ Unwrap(m.destination.val).kind = "Unique"
          \/ lookup(reg, Unwrap(m.destination.val).name) = rule.destination

\* every well-known name had an owner in every registry state of the evaluation
OwnedThroughout == \A reg \in eval.regs, w \in WellKnownNames : lookup(reg, w) # None

====
